---- MODULE Spec2Model ----
(***************************************************************************)
(* A model of the open-addressing hash map of                              *)
(* be/src/vec/common/hash_table/hash_map.h: the map cell (HashMapCell),    *)
(* the map facade (HashMapTable: operator[], for_each_mapped) and the      *)
(* HashTable core they are built on (emplace, find, resize, iteration,     *)
(* zero-key storage).  The core lives in hash_table.h, which is not part   *)
(* of the sources at hand; it is modelled from the design document and     *)
(* from the comment of operator[] (hash_map.h:165-170) that describes the  *)
(* stale mapped bytes the core leaves behind.  The hash-cached cell         *)
(* (HashMapCellWithSavedHash) and a map built on it are modelled next to   *)
(* the plain ones, and so is MatchPredicate::evaluate of                   *)
(* be/src/olap/match_predicate.cpp, which shares no state with the map.    *)
(***************************************************************************)
EXTENDS Integers, Sequences, FiniteSets, TLC

\* ------------------------------------------------------------- bounds
\* Keys are 0..MaxKey; 0 is the zero key (the sentinel of ZeroTraits).
MaxKey == 3
\* The mapped values callers write are the integers 0..MaxVal.
MaxVal == 1
\* The most `map[k] += 1` calls made on one key.
MaxCalls == 3
\* The bucket array starts with 2^InitialSizeDegree slots.
InitialSizeDegree == 1
\* The rows of a segment are 0..MaxRow.
MaxRow == 1

Keys == 0..MaxKey
Values == 0..MaxVal

\* Slot handles (LookupResult): a bucket index, the dedicated zero-key slot,
\* or no slot at all (nullptr).
ZeroSlot == -1
NotFound == -2
\* No mapped value: the shadow of a key that was never inserted, the value
\* of an operation that returns none.
NoValue == -1

VARIABLES
    buf,          \* the bucket array: 0..2^size_degree-1 -> cell
    size_degree,  \* the grower's size degree: capacity = 2^size_degree
    m_size,       \* the occupancy counter
    has_zero,     \* whether the zero key is stored
    zero_value,   \* the dedicated zero-key cell
    shadow,       \* ghost: key -> the mapped value the map owes the caller
    ins_events,   \* ghost: key -> number of calls that reported inserted=true
    calls,        \* ghost: key -> number of `map[key] += 1` calls
    last,         \* ghost: the last operation, its arguments and its result
    held,         \* a LookupResult the caller keeps across calls, or NoHandle
    cells,        \* two cells outside any table, one of each variant
    cached,       \* a second map, built on hash-cached cells: a record of
                  \* buf, size_degree, m_size, has_zero, zero_value
    cached_last,  \* the result of the last call on the second map
    bitmap,       \* the row bitmap a scan hands to MatchPredicate::evaluate
    evaluated     \* the last evaluate call: its inputs, its status, the
                  \* reads it made, or NoCall

vars == <<buf, size_degree, m_size, has_zero, zero_value, shadow, ins_events, calls, last,
          held, cells, cached, cached_last, bitmap, evaluated>>

\* The state the operations of the map leave alone.
aside == <<held, cells, cached, cached_last, bitmap, evaluated>>

\* ------------------------------------------------------ the map cell
\* PairNoInit<Key, Mapped>: a (first, second) pair.
PairNoInit(first_, second_) == [first |-> first_, second |-> second_]

\* mapped_type(): the default-constructed mapped value (an integer type).
DefaultMapped == 0

\* A zero test that looks at the lowest bit of the key only.
is_zero_key_low_bit(key) == key % 2 = 0

\* ZeroTraits::check / HashMapCell::is_zero(key, state)
is_zero_key(key) == key = 0

\* HashMapCell::is_zero(state)
is_zero(cell) == is_zero_key(cell.first)

\* set_zero that leaves the key in place.
set_zero_keeps_key(cell) == cell

\* HashMapCell::set_zero: zeroes the key only, the mapped bytes stay.
set_zero(cell) == [cell EXCEPT !.first = 0]

\* A cell constructor that value-initializes the mapped value too.
HashMapCell_value_init(key_, mem) == PairNoInit(key_, DefaultMapped)

\* HashMapCell(const Key&, const State&) : value(key_, NoInitTag()):
\* constructs the key in the slot `mem`; the mapped bytes are not written.
HashMapCell(key_, mem) == PairNoInit(key_, mem.second)

\* key_equals that compares the lowest bit of the keys only.
key_equals_by_parity(cell, key_, hash_) == cell.first % 2 = key_ % 2

\* HashMapCell::key_equals(key_, hash_): the plain cell ignores the hash.
key_equals(cell, key_, hash_) == cell.first = key_

\* HashMapCell::get_second / lookup_result_get_mapped
get_second(cell) == cell.second

\* A cell type that claims to need no zero-key storage.
no_zero_value_storage == FALSE

\* HashMapCell::need_zero_value_storage
need_zero_value_storage == TRUE

\* HashMapCell::key_equals(key_)
key_equals_1(cell, key_) == cell.first = key_

\* HashMapCell::set_hash(hash_value): `{}`.
set_hash(cell, hash_value) == cell

\* ------------------------------------------- the hash-cached map cell
\* HashMapCellWithSavedHash: a HashMapCell and `size_t saved_hash`.
SavedHashCell(first_, second_, saved_hash_) ==
    [first |-> first_, second |-> second_, saved_hash |-> saved_hash_]

\* HashMapCellWithSavedHash(key_, state), inherited (`using Base::Base`):
\* constructs the key in the slot `mem`; neither the mapped bytes nor
\* saved_hash are written.
HashMapCellWithSavedHash(key_, mem) == SavedHashCell(key_, mem.second, mem.saved_hash)

\* HashMapCellWithSavedHash::key_equals(key_)
WithSavedHash_key_equals_1(cell, key_) == cell.first = key_

\* The hash-aware key_equals without the comparison of the hashes.
WithSavedHash_key_equals_key_only(cell, key_, hash_) == cell.first = key_

\* HashMapCellWithSavedHash::key_equals(key_, hash_)
WithSavedHash_key_equals(cell, key_, hash_) ==
    cell.saved_hash = hash_ /\ cell.first = key_

\* set_hash that stores nothing, as that of the plain cell.
WithSavedHash_set_hash_noop(cell, hash_value) == cell

\* HashMapCellWithSavedHash::set_hash(hash_value)
WithSavedHash_set_hash(cell, hash_value) == [cell EXCEPT !.saved_hash = hash_value]

\* ------------------------------------------------- the HashTable core
\* The hash function of the table (a configuration point): any
\* deterministic function; this one collides and wraps in small arrays.
Hash(key) == 2 * key + 1

\* get_hash that keeps the two lowest bits of the hash only.
get_hash_truncated(cell) == Hash(cell.first) % 4

\* HashMapCell::get_hash(hash): recomputes the hash from the key.
get_hash(cell) == Hash(cell.first)

\* get_hash of the hash-cached cell that recomputes the hash from the key.
WithSavedHash_get_hash_recomputed(cell) == Hash(cell.first)

\* HashMapCellWithSavedHash::get_hash(hash): `return saved_hash`.
WithSavedHash_get_hash(cell) == cell.saved_hash

\* The hash values in play: the hashes of the keys, and 0, which is the
\* hash of no key.
Hashes == {Hash(k) : k \in Keys} \cup {0}

Pow2(n) == 2 ^ n

\* Grower: capacity, bucket of a hash, next bucket of the probe sequence,
\* resize trigger.
buf_size(deg) == Pow2(deg)
place(hash_, deg) == hash_ % Pow2(deg)
next(pos, deg) == (pos + 1) % Pow2(deg)
max_fill(deg) == Pow2(deg - 1)
overflow(elems, deg) == elems > max_fill(deg)
increase_size(deg) == deg + 1

\* A slot of freshly allocated (zero-filled) memory.
ZeroedCell == PairNoInit(0, 0)

\* The probe: from place_value to the first slot that is empty or key-equal.
RECURSIVE find_cell(_, _, _, _, _)
find_cell(b, deg, x, hash_, place_value) ==
    IF is_zero(b[place_value]) \/ key_equals(b[place_value], x, hash_)
    THEN place_value
    ELSE find_cell(b, deg, x, hash_, next(place_value, deg))

\* Resize moves one cell to its place in the grown array: the cell's bytes
\* are copied and the old slot gets its key zeroed (the mapped bytes stay).
reinsert(b, deg, i) ==
    LET x == b[i]
        hash_ == get_hash(x)
        home == place(hash_, deg)
        p == find_cell(b, deg, x.first, hash_, home)
    IN  IF home = i THEN b
        ELSE IF ~is_zero(b[p]) THEN b
        ELSE [b EXCEPT ![p] = x, ![i] = set_zero(b[i])]

RECURSIVE reinsert_all(_, _, _, _)
reinsert_all(b, deg, i, old_size) ==
    IF i >= buf_size(deg) THEN b
    ELSE IF i < old_size
         THEN reinsert_all(IF is_zero(b[i]) THEN b ELSE reinsert(b, deg, i),
                           deg, i + 1, old_size)
         ELSE IF is_zero(b[i]) THEN b
              ELSE reinsert_all(reinsert(b, deg, i), deg, i + 1, old_size)

\* HashTable::resize: the array grows (the new part zero-filled) and every
\* occupied slot is rehashed.
resize(T) ==
    LET old_size == buf_size(T.size_degree)
        deg == increase_size(T.size_degree)
        grown == [i \in 0..(buf_size(deg) - 1) |->
                     IF i < old_size THEN T.buf[i] ELSE ZeroedCell]
    IN  [T EXCEPT !.buf = reinsert_all(grown, deg, 0, old_size),
                  !.size_degree = deg]

\* find that looks at the key's home bucket only.
find_home_only(T, x) ==
    IF need_zero_value_storage /\ is_zero_key(x)
    THEN IF T.has_zero THEN ZeroSlot ELSE NotFound
    ELSE LET p == place(Hash(x), T.size_degree)
         IN  IF key_equals(T.buf[p], x, Hash(x)) THEN p ELSE NotFound

\* HashTable::find: the zero key is looked up in its dedicated slot, any
\* other key by the probe.
find(T, x) ==
    IF need_zero_value_storage /\ is_zero_key(x)
    THEN IF T.has_zero THEN ZeroSlot ELSE NotFound
    ELSE LET p == find_cell(T.buf, T.size_degree, x, Hash(x),
                            place(Hash(x), T.size_degree))
         IN  IF is_zero(T.buf[p]) THEN NotFound ELSE p

\* HashTable::emplace: [table, it, inserted].
emplace(T, x) ==
    IF need_zero_value_storage /\ is_zero_key(x)
    THEN IF T.has_zero
         THEN [table |-> T, it |-> ZeroSlot, inserted |-> FALSE]
         ELSE [table |-> [T EXCEPT !.has_zero = TRUE, !.m_size = @ + 1],
               it |-> ZeroSlot, inserted |-> TRUE]
    ELSE LET p == find_cell(T.buf, T.size_degree, x, Hash(x),
                            place(Hash(x), T.size_degree))
         IN  IF ~is_zero(T.buf[p])
             THEN [table |-> T, it |-> p, inserted |-> FALSE]
             ELSE LET T1 == [T EXCEPT !.buf[p] = HashMapCell(x, T.buf[p]),
                                      !.m_size = @ + 1]
                  IN  IF overflow(T1.m_size, T1.size_degree)
                      THEN LET T2 == resize(T1)
                           IN  [table |-> T2, it |-> find(T2, x), inserted |-> TRUE]
                      ELSE [table |-> T1, it |-> p, inserted |-> TRUE]

\* emplace whose failed resize leaves the new key in its slot and counted.
emplace_alloc_no_rollback(T, x, mem) ==
    LET p == find_cell(T.buf, T.size_degree, x, Hash(x), place(Hash(x), T.size_degree))
        T1 == [T EXCEPT !.buf[p] = HashMapCell(x, T.buf[p]), !.m_size = @ + 1]
    IN  IF is_zero_key(x) \/ ~is_zero(T.buf[p]) \/ ~overflow(T1.m_size, T1.size_degree) \/ mem
        THEN [table |-> emplace(T, x).table, it |-> emplace(T, x).it,
              inserted |-> emplace(T, x).inserted, error |-> FALSE]
        ELSE [table |-> T1, it |-> NotFound, inserted |-> FALSE, error |-> TRUE]

\* HashTable::emplace with the allocator's answer to the resize it may
\* need (mem: the allocation succeeds): [table, it, inserted, error].  The
\* bucket array is allocated before any cell is moved; when that fails the
\* operation fails as a whole with resource exhaustion: the key just
\* constructed is taken back (its slot marked empty, the occupancy counter
\* restored) and no handle is returned.
emplace_alloc(T, x, mem) ==
    LET p == find_cell(T.buf, T.size_degree, x, Hash(x), place(Hash(x), T.size_degree))
        T1 == [T EXCEPT !.buf[p] = HashMapCell(x, T.buf[p]), !.m_size = @ + 1]
    IN  IF is_zero_key(x) \/ ~is_zero(T.buf[p]) \/ ~overflow(T1.m_size, T1.size_degree) \/ mem
        THEN [table |-> emplace(T, x).table, it |-> emplace(T, x).it,
              inserted |-> emplace(T, x).inserted, error |-> FALSE]
        ELSE [table |-> [T1 EXCEPT !.buf[p] = set_zero(@), !.m_size = @ - 1],
              it |-> NotFound, inserted |-> FALSE, error |-> TRUE]

\* lookup_result_get_mapped that returns the address of the key.
lookup_result_get_mapped_of_key(cell) == cell.first

\* lookup_result_get_key(cell): `&cell->get_first()`, read.
lookup_result_get_key(cell) == cell.first

\* lookup_result_get_mapped(cell): `&cell->get_second()`, read.
lookup_result_get_mapped(cell) == cell.second

\* ------------------------- the HashTable core, on hash-cached cells
\* The same core instantiated with HashMapCellWithSavedHash: the cell's
\* own key_equals, get_hash and set_hash take the place of the plain
\* cell's; a new cell gets its hash stored right after construction.
ZeroedSavedCell == SavedHashCell(0, 0, 0)

RECURSIVE WithSavedHash_find_cell(_, _, _, _, _)
WithSavedHash_find_cell(b, deg, x, hash_, place_value) ==
    IF is_zero(b[place_value]) \/ WithSavedHash_key_equals(b[place_value], x, hash_)
    THEN place_value
    ELSE WithSavedHash_find_cell(b, deg, x, hash_, next(place_value, deg))

WithSavedHash_reinsert(b, deg, i) ==
    LET x == b[i]
        hash_ == WithSavedHash_get_hash(x)
        home == place(hash_, deg)
        p == WithSavedHash_find_cell(b, deg, x.first, hash_, home)
    IN  IF home = i THEN b
        ELSE IF ~is_zero(b[p]) THEN b
        ELSE [b EXCEPT ![p] = x, ![i] = set_zero(b[i])]

RECURSIVE WithSavedHash_reinsert_all(_, _, _, _)
WithSavedHash_reinsert_all(b, deg, i, old_size) ==
    IF i >= buf_size(deg) THEN b
    ELSE IF i < old_size
         THEN WithSavedHash_reinsert_all(
                  IF is_zero(b[i]) THEN b ELSE WithSavedHash_reinsert(b, deg, i),
                  deg, i + 1, old_size)
         ELSE IF is_zero(b[i]) THEN b
              ELSE WithSavedHash_reinsert_all(WithSavedHash_reinsert(b, deg, i),
                                              deg, i + 1, old_size)

WithSavedHash_resize(T) ==
    LET old_size == buf_size(T.size_degree)
        deg == increase_size(T.size_degree)
        grown == [i \in 0..(buf_size(deg) - 1) |->
                     IF i < old_size THEN T.buf[i] ELSE ZeroedSavedCell]
    IN  [T EXCEPT !.buf = WithSavedHash_reinsert_all(grown, deg, 0, old_size),
                  !.size_degree = deg]

WithSavedHash_find(T, x) ==
    IF need_zero_value_storage /\ is_zero_key(x)
    THEN IF T.has_zero THEN ZeroSlot ELSE NotFound
    ELSE LET p == WithSavedHash_find_cell(T.buf, T.size_degree, x, Hash(x),
                                          place(Hash(x), T.size_degree))
         IN  IF is_zero(T.buf[p]) THEN NotFound ELSE p

WithSavedHash_emplace(T, x) ==
    IF need_zero_value_storage /\ is_zero_key(x)
    THEN IF T.has_zero
         THEN [table |-> T, it |-> ZeroSlot, inserted |-> FALSE]
         ELSE [table |-> [T EXCEPT !.has_zero = TRUE, !.m_size = @ + 1,
                                   !.zero_value = WithSavedHash_set_hash(@, Hash(x))],
               it |-> ZeroSlot, inserted |-> TRUE]
    ELSE LET p == WithSavedHash_find_cell(T.buf, T.size_degree, x, Hash(x),
                                          place(Hash(x), T.size_degree))
         IN  IF ~is_zero(T.buf[p])
             THEN [table |-> T, it |-> p, inserted |-> FALSE]
             ELSE LET T1 == [T EXCEPT
                                !.buf[p] = WithSavedHash_set_hash(
                                               HashMapCellWithSavedHash(x, T.buf[p]),
                                               Hash(x)),
                                !.m_size = @ + 1]
                  IN  IF overflow(T1.m_size, T1.size_degree)
                      THEN LET T2 == WithSavedHash_resize(T1)
                           IN  [table |-> T2, it |-> WithSavedHash_find(T2, x),
                                inserted |-> TRUE]
                      ELSE [table |-> T1, it |-> p, inserted |-> TRUE]

\* The cell a handle references.
cell_at(T, it) == IF it = ZeroSlot THEN T.zero_value ELSE T.buf[it]

\* Writing through a handle.
with_cell(T, it, cell) ==
    IF it = ZeroSlot THEN [T EXCEPT !.zero_value = cell]
    ELSE [T EXCEPT !.buf[it] = cell]

\* The iteration order: the zero-key slot first (when occupied), then the
\* occupied slots of the bucket array in bucket order.
RECURSIVE occupied_from(_, _, _)
occupied_from(b, deg, i) ==
    IF i >= buf_size(deg) THEN <<>>
    ELSE (IF is_zero(b[i]) THEN <<>> ELSE <<i>>) \o occupied_from(b, deg, i + 1)

iterate(T) ==
    (IF T.has_zero THEN <<ZeroSlot>> ELSE <<>>) \o occupied_from(T.buf, T.size_degree, 0)

\* ------------------------------------------------- the HashMap facade
\* operator[] without the placement new of line 179.
operator_index_no_init(T, x) == emplace(T, x)

\* operator[] that default-constructs the mapped value on every call.
operator_index_always_init(T, x) ==
    LET r == emplace(T, x)
    IN  [r EXCEPT !.table = with_cell(r.table, r.it,
                                      PairNoInit(cell_at(r.table, r.it).first,
                                                 DefaultMapped))]

\* HashMapTable::operator[]: emplace, default-construct the mapped value of
\* a new key, return the handle's mapped value.
operator_index(T, x) ==
    LET r == emplace(T, x)
    IN  IF r.inserted
        THEN [r EXCEPT !.table = with_cell(r.table, r.it,
                                           PairNoInit(cell_at(r.table, r.it).first,
                                                      DefaultMapped))]
        ELSE r

\* HashMapTable::operator[] of the map on hash-cached cells.
WithSavedHash_operator_index(T, x) ==
    LET r == WithSavedHash_emplace(T, x)
        c == cell_at(r.table, r.it)
    IN  IF r.inserted
        THEN [r EXCEPT !.table = with_cell(r.table, r.it,
                                           SavedHashCell(c.first, DefaultMapped,
                                                         c.saved_hash))]
        ELSE r

\* The visitors a caller passes to for_each_mapped.
Visitors == {"read", "bump"}
visit(func, mapped) ==
    CASE func = "read" -> mapped
      [] func = "bump" -> (mapped + 1) % (MaxVal + 1)

\* HashMapTable::for_each_mapped: func(v.get_second()) for each v of the
\* iteration: [table, seq], seq the slots func was called on, in order.
RECURSIVE for_each_from(_, _, _, _)
for_each_from(T, func, its, i) ==
    IF i > Len(its) THEN T
    ELSE LET c == cell_at(T, its[i])
         IN  for_each_from(with_cell(T, its[i],
                                     PairNoInit(c.first, visit(func, get_second(c)))),
                           func, its, i + 1)

\* for_each_mapped over the bucket array alone, the zero-key slot left out.
for_each_mapped_skips_zero(T, func) ==
    LET its == occupied_from(T.buf, T.size_degree, 0)
    IN  [table |-> for_each_from(T, func, its, 1), seq |-> its]

\* for_each_mapped over every slot, occupied or not.
for_each_mapped_all_slots(T, func) ==
    LET its == <<ZeroSlot>> \o [i \in 1..buf_size(T.size_degree) |-> i - 1]
    IN  [table |-> for_each_from(T, func, its, 1), seq |-> its]

for_each_mapped(T, func) ==
    [table |-> for_each_from(T, func, iterate(T), 1), seq |-> iterate(T)]

\* A null-key side slot that takes the zero-key cell for the null key.
get_null_key_data_zero_cell(T) == IF T.has_zero THEN ZeroSlot ELSE NotFound

\* HashMapTable::get_null_key_data: `return nullptr`.
get_null_key_data(T) == NotFound

\* has_null_key_data that reports the zero key as a null key.
has_null_key_data_when_zero(T) == T.has_zero

\* HashMapTable::has_null_key_data: `return false`.
has_null_key_data(T) == FALSE

\* What a read through a dangling pointer may yield: any bytes.
AnyCell == {PairNoInit(k, v) : k \in Keys, v \in Values}

\* The cells a read through the handle h may yield.  A handle is a pointer
\* to a cell: into the bucket array, which every resize reallocates, or to
\* the zero-key cell, a member of the table.
lookup_result_cells(T, h) ==
    IF h.it = ZeroSlot \/ h.size_degree = T.size_degree
    THEN {cell_at(T, h.it)}
    ELSE AnyCell

\* ------------------------------------------------- MatchPredicate
\* be/src/olap/match_predicate.cpp.  A bitmap (roaring::Roaring) is the
\* set of its rows.
Rows == 0..MaxRow
Bitmaps == SUBSET Rows

\* The match types of the switch in _to_inverted_index_query_type.
MatchTypes == {"MATCH_ANY", "MATCH_ALL", "MATCH_PHRASE", "MATCH_PHRASE_PREFIX",
               "MATCH_REGEXP", "MATCH_PHRASE_EDGE"}

\* The column types evaluate tells apart: a string, an array of strings,
\* an array of a numeric type, anything else.
ColumnTypes == {"string", "array<string>", "array<numeric>", "other"}

\* What the index reader behind an iterator answers: its type, its phrase
\* support property, read_from_inverted_index (a status, the rows), has_null,
\* read_null_bitmap (a status, a bitmap or none).
IndexErrors == {"IO_ERROR", "INVERTED_INDEX_INVALID_PARAMETERS"}
IndexAnswers ==
    {[status |-> e, rows |-> {}] : e \in IndexErrors}
        \cup {[status |-> "OK", rows |-> r] : r \in Bitmaps}
NullBitmapAnswers ==
    {[status |-> "IO_ERROR", present |-> FALSE, rows |-> {}],
     [status |-> "OK", present |-> FALSE, rows |-> {}]}
        \cup {[status |-> "OK", present |-> TRUE, rows |-> r] : r \in Bitmaps}

\* iterator == nullptr
NullIterator ==
    [null |-> TRUE, reader_type |-> "STRING_TYPE", phrase_support |-> "true",
     index |-> [status |-> "OK", rows |-> {}], has_null |-> FALSE,
     null_bitmap |-> [status |-> "OK", present |-> FALSE, rows |-> {}]]

Iterators ==
    {NullIterator} \cup
    [null : {FALSE}, reader_type : {"FULLTEXT", "STRING_TYPE"},
     phrase_support : {"true", "false"}, index : IndexAnswers,
     has_null : BOOLEAN, null_bitmap : NullBitmapAnswers]

\* MatchPredicate::_to_inverted_index_query_type
to_inverted_index_query_type(match_type) ==
    CASE match_type = "MATCH_ANY" -> "MATCH_ANY_QUERY"
      [] match_type = "MATCH_ALL" -> "MATCH_ALL_QUERY"
      [] match_type = "MATCH_PHRASE" -> "MATCH_PHRASE_QUERY"
      [] match_type = "MATCH_PHRASE_PREFIX" -> "MATCH_PHRASE_PREFIX_QUERY"
      [] match_type = "MATCH_REGEXP" -> "MATCH_REGEXP_QUERY"
      [] match_type = "MATCH_PHRASE_EDGE" -> "MATCH_PHRASE_EDGE_QUERY"
      [] OTHER -> "UNKNOWN_QUERY"

\* _check_evaluate that does not look at the reader's type.
check_evaluate_any_reader(match_type, iterator) ==
    /\ match_type \in {"MATCH_PHRASE", "MATCH_PHRASE_PREFIX", "MATCH_PHRASE_EDGE"}
    /\ iterator.phrase_support = "false"

\* MatchPredicate::_check_evaluate: a phrase query on a full-text index
\* whose properties say support_phrase = false.
check_evaluate(match_type, iterator) ==
    /\ match_type \in {"MATCH_PHRASE", "MATCH_PHRASE_PREFIX", "MATCH_PHRASE_EDGE"}
    /\ iterator.reader_type = "FULLTEXT"
    /\ iterator.phrase_support = "false"

\* The outcome of a stage of evaluate: a status, the rows found, the
\* reads made of the index, in order.
Outcome(status_, rows_, reads_) == [status |-> status_, rows |-> rows_, reads |-> reads_]

\* iterator->read_from_inverted_index(name, value, query_type, num_rows, roaring)
read_from_inverted_index(iterator, query_type) ==
    Outcome(iterator.index.status, iterator.index.rows,
            <<<<"read_from_inverted_index", query_type>>>>)

\* The query stage that asks the index whatever the column type.
query_rows_any_column(match_type, column, parses, iterator) ==
    read_from_inverted_index(iterator, to_inverted_index_query_type(match_type))

\* evaluate, lines 60-80: `roaring` starts empty; a string column or an
\* array of strings is queried with the match value; an array of a numeric
\* type with the value parsed by from_string (parses: it parses); any other
\* column is not queried.
query_rows(match_type, column, parses, iterator) ==
    LET query_type == to_inverted_index_query_type(match_type)
    IN  IF column \in {"string", "array<string>"}
        THEN read_from_inverted_index(iterator, query_type)
        ELSE IF column = "array<numeric>"
             THEN IF ~parses THEN Outcome("INVALID_ARGUMENT", {}, <<>>)
                  ELSE read_from_inverted_index(iterator, query_type)
             ELSE Outcome("OK", {}, <<>>)

\* The null mask that is read and then not applied.
mask_null_bitmap_unapplied(bm, iterator) ==
    IF iterator.has_null
    THEN Outcome(iterator.null_bitmap.status, bm, <<<<"read_null_bitmap", "">>>>)
    ELSE Outcome("OK", bm, <<>>)

\* evaluate, lines 85-92: when the index has nulls the null bitmap is read
\* and, when one is returned, taken out of the bitmap.
mask_null_bitmap(bm, iterator) ==
    IF iterator.has_null
    THEN Outcome(iterator.null_bitmap.status,
                 IF iterator.null_bitmap.status = "OK" /\ iterator.null_bitmap.present
                 THEN bm \ iterator.null_bitmap.rows
                 ELSE bm,
                 <<<<"read_null_bitmap", "">>>>)
    ELSE Outcome("OK", bm, <<>>)

\* MatchPredicate::evaluate(name_with_type, iterator, num_rows, bitmap):
\* the status returned, the bitmap afterwards, the reads made.
evaluate(match_type, column, parses, iterator, bm) ==
    IF iterator.null THEN Outcome("OK", bm, <<>>)
    ELSE IF check_evaluate(match_type, iterator)
    THEN Outcome("INVERTED_INDEX_INVALID_PARAMETERS", bm, <<>>)
    ELSE LET roaring == query_rows(match_type, column, parses, iterator)
         IN  IF roaring.status # "OK"
             THEN Outcome(roaring.status, bm, roaring.reads)
             ELSE LET masked == mask_null_bitmap(bm, iterator)
                  IN  IF masked.status # "OK"
                      THEN Outcome(masked.status, bm, roaring.reads \o masked.reads)
                      ELSE Outcome("OK", masked.rows \cap roaring.rows,
                                   roaring.reads \o masked.reads)

\* No evaluate call to look at.
NoCall ==
    [match_type |-> "MATCH_ANY", column |-> "other", parses |-> FALSE,
     iterator |-> NullIterator, input |-> {}, status |-> "none", reads |-> <<>>]

\* --------------------------------------------------------- the state
Table == [buf |-> buf, size_degree |-> size_degree, m_size |-> m_size,
          has_zero |-> has_zero, zero_value |-> zero_value]

SetTable(T) ==
    /\ buf' = T.buf
    /\ size_degree' = T.size_degree
    /\ m_size' = T.m_size
    /\ has_zero' = T.has_zero
    /\ zero_value' = T.zero_value

\* The result of a call as the caller sees it: the inserted flag, the slot
\* handle, the mapped value read through it, the slots a visitor was called
\* on.  raw is the mapped bytes emplace left in the slot.
Result(op_, key_, inserted_, it_, raw_, value_, seq_) ==
    [op |-> op_, key |-> key_, inserted |-> inserted_, it |-> it_,
     raw |-> raw_, value |-> value_, seq |-> seq_]

\* The caller keeps no handle.
NoHandle == [it |-> NotFound, key |-> 0, size_degree |-> 0]

\* No call in flight.
Idle == Result("none", 0, FALSE, NotFound, NoValue, NoValue, <<>>)

\* A table as constructed: a zero-filled bucket array of the initial size,
\* no element; the bytes of the zero-key cell's mapped value are whatever
\* the object's memory held.
InitTable ==
    /\ size_degree = InitialSizeDegree
    /\ buf = [i \in 0..(buf_size(InitialSizeDegree) - 1) |-> ZeroedCell]
    /\ m_size = 0
    /\ has_zero = FALSE
    /\ zero_value \in {PairNoInit(0, g) : g \in Values}
    /\ shadow = [k \in Keys |-> NoValue]
    /\ ins_events = [k \in Keys |-> 0]
    /\ calls = [k \in Keys |-> 0]
    /\ last = Idle
    /\ held = NoHandle

\* No cell outside the table.
NoCells == <<>>

\* No second map.
NoTable == <<>>

Init ==
    /\ InitTable
    /\ cells = NoCells
    /\ cached = NoTable
    /\ cached_last = Idle
    /\ bitmap = {}
    /\ evaluated = NoCall

\* A map on plain cells and a map on hash-cached cells, both as
\* constructed, in equal bytes of memory; saved_hash of the zero-key cell
\* is whatever the memory held.
InitBoth ==
    /\ InitTable
    /\ cells = NoCells
    /\ \E g \in Hashes :
          cached = [buf |-> [i \in 0..(buf_size(InitialSizeDegree) - 1) |->
                                ZeroedSavedCell],
                    size_degree |-> InitialSizeDegree,
                    m_size |-> 0,
                    has_zero |-> FALSE,
                    zero_value |-> SavedHashCell(0, zero_value.second, g)]
    /\ cached_last = Idle
    /\ bitmap = {}
    /\ evaluated = NoCall

\* Two cells constructed from the same key in equal bytes of memory, one
\* of each variant; saved_hash is whatever the memory held.  stored is the
\* hash last passed to set_hash (none yet).
InitCells ==
    /\ InitTable
    /\ \E k \in Keys, v \in Values, g \in Hashes :
          cells = [plain |-> HashMapCell(k, PairNoInit(0, v)),
                   cached |-> HashMapCellWithSavedHash(k, SavedHashCell(0, v, g)),
                   stored |-> NoValue]
    /\ cached = NoTable
    /\ cached_last = Idle
    /\ bitmap = {}
    /\ evaluated = NoCall

\* A scan about to evaluate match predicates on some bitmap of rows.
InitMatch ==
    /\ InitTable
    /\ cells = NoCells
    /\ cached = NoTable
    /\ cached_last = Idle
    /\ bitmap \in Bitmaps
    /\ evaluated = NoCall

CountInsert(k, inserted_) ==
    ins_events' = IF inserted_ THEN [ins_events EXCEPT ![k] = @ + 1] ELSE ins_events

\* table.emplace(k, it, inserted): the caller does not touch the mapped
\* value, so a new key's mapped value is the bytes found in its slot.
\* (Here and in operator[] the handle emplace returns is dereferenced: a
\* null handle ends the program, so such a call has no next state.)
Emplace(k) ==
    LET r == emplace(Table, k)
        raw == get_second(cell_at(r.table, r.it))
    IN  /\ last = Idle
        /\ r.it # NotFound
        /\ SetTable(r.table)
        /\ CountInsert(k, r.inserted)
        /\ shadow' = IF r.inserted THEN [shadow EXCEPT ![k] = raw] ELSE shadow
        /\ last' = Result("emplace", k, r.inserted, r.it, raw, raw, <<>>)
        /\ UNCHANGED <<calls, aside>>

\* The mapped bytes the emplace inside operator[] leaves in the slot.
RawAfterEmplace(k) ==
    LET e == emplace(Table, k) IN get_second(cell_at(e.table, e.it))

\* x = map[k]
IndexRead(k) ==
    LET r == operator_index(Table, k)
    IN  /\ last = Idle
        /\ r.it # NotFound
        /\ SetTable(r.table)
        /\ CountInsert(k, r.inserted)
        /\ shadow' = IF r.inserted THEN [shadow EXCEPT ![k] = DefaultMapped] ELSE shadow
        /\ last' = Result("index", k, r.inserted, r.it, RawAfterEmplace(k),
                          get_second(cell_at(r.table, r.it)), <<>>)
        /\ UNCHANGED <<calls, aside>>

\* map[k] = v
IndexAssign(k, v) ==
    LET r == operator_index(Table, k)
        c == cell_at(r.table, r.it)
    IN  /\ last = Idle
        /\ r.it # NotFound
        /\ SetTable(with_cell(r.table, r.it, PairNoInit(c.first, v)))
        /\ CountInsert(k, r.inserted)
        /\ shadow' = [shadow EXCEPT ![k] = v]
        /\ last' = Result("assign", k, r.inserted, r.it, RawAfterEmplace(k),
                          get_second(c), <<>>)
        /\ UNCHANGED <<calls, aside>>

\* map[k] += 1
IndexIncr(k) ==
    LET r == operator_index(Table, k)
        c == cell_at(r.table, r.it)
    IN  /\ last = Idle
        /\ r.it # NotFound
        /\ calls[k] < MaxCalls
        /\ SetTable(with_cell(r.table, r.it, PairNoInit(c.first, get_second(c) + 1)))
        /\ CountInsert(k, r.inserted)
        /\ calls' = [calls EXCEPT ![k] = @ + 1]
        /\ last' = Result("incr", k, r.inserted, r.it, RawAfterEmplace(k),
                          get_second(c), <<>>)
        /\ UNCHANGED <<shadow, aside>>

\* it = table.find(k)
Find(k) ==
    LET it == find(Table, k)
        v == IF it = NotFound THEN NoValue ELSE get_second(cell_at(Table, it))
    IN  /\ last = Idle
        /\ last' = Result("find", k, FALSE, it, v, v, <<>>)
        /\ UNCHANGED <<buf, size_degree, m_size, has_zero, zero_value,
                       shadow, ins_events, calls, aside>>

\* map.for_each_mapped(func)
ForEachMapped(func) ==
    LET r == for_each_mapped(Table, func)
    IN  /\ last = Idle
        /\ SetTable(r.table)
        /\ shadow' = [k \in Keys |->
                         IF find(Table, k) = NotFound THEN shadow[k]
                         ELSE visit(func, shadow[k])]
        /\ last' = Result(func, 0, FALSE, NotFound, NoValue, NoValue, r.seq)
        /\ UNCHANGED <<ins_events, calls, aside>>

\* The caller lets go of the result of the call (a LookupResult is a
\* transient handle, never stored).
Discard ==
    /\ last # Idle
    /\ last' = Idle
    /\ UNCHANGED <<buf, size_degree, m_size, has_zero, zero_value,
                   shadow, ins_events, calls, aside>>

\* table.emplace(k, it, inserted) at a time the allocator has no memory
\* for the grown bucket array: the call ends with the allocator's
\* exception (resource exhaustion) and returns nothing.
EmplaceNoMem(k) ==
    LET r == emplace_alloc(Table, k, FALSE)
    IN  /\ last = Idle
        /\ r.error
        /\ SetTable(r.table)
        /\ last' = Result("bad_alloc", k, r.inserted, r.it, NoValue, NoValue, <<>>)
        /\ UNCHANGED <<shadow, ins_events, calls, aside>>

\* The caller keeps the handle the last call returned.
Hold ==
    /\ last.op \in {"emplace", "find", "index", "assign"}
    /\ last.it # NotFound
    /\ held' = [it |-> last.it, key |-> last.key, size_degree |-> size_degree]
    /\ last' = Idle
    /\ UNCHANGED <<buf, size_degree, m_size, has_zero, zero_value,
                   shadow, ins_events, calls, cells, cached, cached_last,
                   bitmap, evaluated>>

\* The caller reads the key and the mapped value through the handle it
\* kept: lookup_result_get_key(it), lookup_result_get_mapped(it).
Deref ==
    /\ last = Idle
    /\ held # NoHandle
    /\ \E c \in lookup_result_cells(Table, held) :
          last' = Result("deref", lookup_result_get_key(c), FALSE, held.it,
                         lookup_result_get_mapped(c), lookup_result_get_mapped(c), <<>>)
    /\ UNCHANGED <<buf, size_degree, m_size, has_zero, zero_value,
                   shadow, ins_events, calls, aside>>

\* The frame of a call on the cells.
TableUnchanged ==
    UNCHANGED <<buf, size_degree, m_size, has_zero, zero_value,
                shadow, ins_events, calls, held, cached, cached_last,
                bitmap, evaluated>>

\* cell.set_hash(h) on both cells.
SetHash(h) ==
    /\ last = Idle
    /\ cells' = [plain |-> set_hash(cells.plain, h),
                 cached |-> WithSavedHash_set_hash(cells.cached, h),
                 stored |-> h]
    /\ last' = Result("set_hash", 0, FALSE, NotFound, h, NoValue, <<>>)
    /\ TableUnchanged

\* cell.get_hash(hash) on the plain cell, on the hash-cached cell: the
\* hash returned is kept in `value`.
GetHash ==
    /\ last = Idle
    /\ last' = Result("get_hash", 0, FALSE, NotFound, NoValue,
                      get_hash(cells.plain), <<>>)
    /\ UNCHANGED cells
    /\ TableUnchanged

GetHashCached ==
    /\ last = Idle
    /\ last' = Result("cached.get_hash", 0, FALSE, NotFound, NoValue,
                      WithSavedHash_get_hash(cells.cached), <<>>)
    /\ UNCHANGED cells
    /\ TableUnchanged

\* cell.key_equals(k, h) and cell.key_equals(k) on the plain cell, on the
\* hash-cached cell: h is kept in `raw`, the answer in `inserted`.
KeyEquals(k, h) ==
    /\ last = Idle
    /\ last' = Result("key_equals", k, key_equals(cells.plain, k, h), NotFound,
                      h, NoValue, <<>>)
    /\ UNCHANGED cells
    /\ TableUnchanged

KeyEqualsCached(k, h) ==
    /\ last = Idle
    /\ last' = Result("cached.key_equals", k,
                      WithSavedHash_key_equals(cells.cached, k, h), NotFound,
                      h, NoValue, <<>>)
    /\ UNCHANGED cells
    /\ TableUnchanged

KeyEquals1(k) ==
    /\ last = Idle
    /\ last' = Result("key_equals_1", k, key_equals_1(cells.plain, k), NotFound,
                      NoValue, NoValue, <<>>)
    /\ UNCHANGED cells
    /\ TableUnchanged

KeyEqualsCached1(k) ==
    /\ last = Idle
    /\ last' = Result("cached.key_equals_1", k,
                      WithSavedHash_key_equals_1(cells.cached, k), NotFound,
                      NoValue, NoValue, <<>>)
    /\ UNCHANGED cells
    /\ TableUnchanged

\* The same call on both maps.  (The caller dereferences the handles.)
BothEmplace(k) ==
    LET r == emplace(Table, k)
        c == WithSavedHash_emplace(cached, k)
    IN  /\ last = Idle
        /\ r.it # NotFound /\ c.it # NotFound
        /\ SetTable(r.table)
        /\ cached' = c.table
        /\ last' = Result("emplace", k, r.inserted, r.it, NoValue,
                          get_second(cell_at(r.table, r.it)), <<>>)
        /\ cached_last' = Result("emplace", k, c.inserted, c.it, NoValue,
                                 get_second(cell_at(c.table, c.it)), <<>>)
        /\ UNCHANGED <<shadow, ins_events, calls, held, cells, bitmap, evaluated>>

BothIndexRead(k) ==
    LET r == operator_index(Table, k)
        c == WithSavedHash_operator_index(cached, k)
    IN  /\ last = Idle
        /\ r.it # NotFound /\ c.it # NotFound
        /\ SetTable(r.table)
        /\ cached' = c.table
        /\ last' = Result("index", k, r.inserted, r.it, NoValue,
                          get_second(cell_at(r.table, r.it)), <<>>)
        /\ cached_last' = Result("index", k, c.inserted, c.it, NoValue,
                                 get_second(cell_at(c.table, c.it)), <<>>)
        /\ UNCHANGED <<shadow, ins_events, calls, held, cells, bitmap, evaluated>>

BothIndexAssign(k, v) ==
    LET r == operator_index(Table, k)
        c == WithSavedHash_operator_index(cached, k)
        rc == cell_at(r.table, r.it)
        cc == cell_at(c.table, c.it)
    IN  /\ last = Idle
        /\ r.it # NotFound /\ c.it # NotFound
        /\ SetTable(with_cell(r.table, r.it, PairNoInit(rc.first, v)))
        /\ cached' = with_cell(c.table, c.it, SavedHashCell(cc.first, v, cc.saved_hash))
        /\ last' = Result("assign", k, r.inserted, r.it, NoValue, get_second(rc), <<>>)
        /\ cached_last' = Result("assign", k, c.inserted, c.it, NoValue,
                                 get_second(cc), <<>>)
        /\ UNCHANGED <<shadow, ins_events, calls, held, cells, bitmap, evaluated>>

BothFind(k) ==
    LET it == find(Table, k)
        cit == WithSavedHash_find(cached, k)
    IN  /\ last = Idle
        /\ last' = Result("find", k, FALSE, it, NoValue,
                          IF it = NotFound THEN NoValue
                          ELSE get_second(cell_at(Table, it)), <<>>)
        /\ cached_last' = Result("find", k, FALSE, cit, NoValue,
                                 IF cit = NotFound THEN NoValue
                                 ELSE get_second(cell_at(cached, cit)), <<>>)
        /\ UNCHANGED <<buf, size_degree, m_size, has_zero, zero_value,
                       shadow, ins_events, calls, held, cells, cached,
                       bitmap, evaluated>>

\* The caller lets go of the results of the call on both maps.
BothDiscard ==
    /\ last # Idle
    /\ last' = Idle
    /\ cached_last' = Idle
    /\ UNCHANGED <<buf, size_degree, m_size, has_zero, zero_value,
                   shadow, ins_events, calls, held, cells, cached,
                   bitmap, evaluated>>

\* The frame of a call that touches no map.
MapsUnchanged ==
    UNCHANGED <<buf, size_degree, m_size, has_zero, zero_value,
                shadow, ins_events, calls, last, held, cells, cached, cached_last>>

\* status = predicate.evaluate(name_with_type, iterator, num_rows, &bitmap)
Evaluate(match_type, column, parses, iterator) ==
    LET r == evaluate(match_type, column, parses, iterator, bitmap)
    IN  /\ evaluated = NoCall
        /\ bitmap' = r.rows
        /\ evaluated' = [match_type |-> match_type, column |-> column,
                         parses |-> parses, iterator |-> iterator,
                         input |-> bitmap, status |-> r.status, reads |-> r.reads]
        /\ MapsUnchanged

\* The scan has looked at the status and goes on to its next predicate.
NextPredicate ==
    /\ evaluated # NoCall
    /\ evaluated' = NoCall
    /\ UNCHANGED bitmap
    /\ MapsUnchanged

\* p = map.get_null_key_data(): the pointer returned is kept in `it`.
GetNullKeyData ==
    /\ last = Idle
    /\ last' = Result("get_null_key_data", 0, FALSE, get_null_key_data(Table),
                      NoValue, NoValue, <<>>)
    /\ UNCHANGED <<buf, size_degree, m_size, has_zero, zero_value,
                   shadow, ins_events, calls, aside>>

\* b = map.has_null_key_data(): the flag returned is kept in `inserted`.
HasNullKeyData ==
    /\ last = Idle
    /\ last' = Result("has_null_key_data", 0, has_null_key_data(Table), NotFound,
                      NoValue, NoValue, <<>>)
    /\ UNCHANGED <<buf, size_degree, m_size, has_zero, zero_value,
                   shadow, ins_events, calls, aside>>

Next ==
    \/ \E k \in Keys : Emplace(k)
    \/ \E k \in Keys : IndexRead(k)
    \/ \E k \in Keys, v \in Values : IndexAssign(k, v)
    \/ \E k \in Keys : Find(k)
    \/ \E func \in Visitors : ForEachMapped(func)
    \/ Discard

Spec == Init /\ [][Next]_vars

\* A map that is only ever used as a counter: `map[k] += 1` on any key.
NextIncr ==
    \/ \E k \in Keys : IndexIncr(k)
    \/ Discard

SpecIncr == Init /\ [][NextIncr]_vars

\* A map whose caller asks for the null-key side slot between inserts.
NextNullKey ==
    \/ \E k \in Keys : Emplace(k)
    \/ \E k \in Keys, v \in Values : IndexAssign(k, v)
    \/ GetNullKeyData
    \/ HasNullKeyData
    \/ Discard

SpecNullKey == Init /\ [][NextNullKey]_vars

\* A map whose allocator may run out of memory at any resize.
NextNoMem ==
    \/ \E k \in Keys : Emplace(k)
    \/ \E k \in Keys : EmplaceNoMem(k)
    \/ \E k \in Keys, v \in Values : IndexAssign(k, v)
    \/ Discard

SpecNoMem == Init /\ [][NextNoMem]_vars

\* A map whose caller keeps a handle across later calls (the values it
\* writes are all MaxVal: the cells hold that, a default or stale bytes).
NextHandle ==
    \/ \E k \in Keys : Emplace(k)
    \/ \E k \in Keys : IndexAssign(k, MaxVal)
    \/ \E k \in Keys : Find(k)
    \/ Hold
    \/ Deref
    \/ Discard

SpecHandle == Init /\ [][NextHandle]_vars

\* The cell operations, on a plain and on a hash-cached cell.
NextCells ==
    \/ \E h \in Hashes : SetHash(h)
    \/ GetHash
    \/ GetHashCached
    \/ \E k \in Keys, h \in Hashes : KeyEquals(k, h)
    \/ \E k \in Keys, h \in Hashes : KeyEqualsCached(k, h)
    \/ \E k \in Keys : KeyEquals1(k)
    \/ \E k \in Keys : KeyEqualsCached1(k)
    \/ Discard

SpecCells == InitCells /\ [][NextCells]_vars

\* The two maps, given the same calls.
NextBoth ==
    \/ \E k \in Keys : BothEmplace(k)
    \/ \E k \in Keys : BothIndexRead(k)
    \/ \E k \in Keys : BothIndexAssign(k, MaxVal)
    \/ \E k \in Keys : BothFind(k)
    \/ BothDiscard

SpecBoth == InitBoth /\ [][NextBoth]_vars

\* A scan that evaluates match predicates, one after another, on its
\* bitmap.
NextMatch ==
    \/ /\ evaluated = NoCall
       /\ \E match_type \in MatchTypes, column \in ColumnTypes, parses \in BOOLEAN,
             iterator \in Iterators : Evaluate(match_type, column, parses, iterator)
    \/ NextPredicate

SpecMatch == InitMatch /\ [][NextMatch]_vars

TypeOK ==
    /\ size_degree \in InitialSizeDegree..(InitialSizeDegree + MaxKey)
    /\ DOMAIN buf = 0..(buf_size(size_degree) - 1)
    /\ \A i \in DOMAIN buf : buf[i].first \in Keys /\ buf[i].second \in Values
    /\ m_size \in 0..(MaxKey + 1)
    /\ has_zero \in BOOLEAN
    /\ zero_value.first = 0 /\ zero_value.second \in Values
    /\ \A k \in Keys : emplace(Table, k).it # NotFound

\* ------------------------------------------------ what a caller observes
\* The table after the step.
TableNext == [buf |-> buf', size_degree |-> size_degree', m_size |-> m_size',
              has_zero |-> has_zero', zero_value |-> zero_value']

Present(T, k) == find(T, k) # NotFound
ValueOf(T, k) == get_second(cell_at(T, find(T, k)))
KeysOf(T) == {k \in Keys : Present(T, k)}

\* The keys some call reported as newly inserted.
InsertedKeys == {k \in Keys : ins_events[k] > 0}

\* The occupied slots of the bucket array.
OccupiedSlots(T) == {i \in DOMAIN T.buf : ~is_zero(T.buf[i])}

IndexOps == {"index", "assign", "incr"}

\* ---------------------------------------------------------------- C1
\* C1: operator[](k) is get-or-insert-with-default.  For every key (the
\* zero key included): if k was absent the call reports an insertion, k is
\* present afterwards and the mapped value read through the returned
\* reference is the default-constructed value, whatever bytes the slot
\* held; if k was present the call returns the existing mapped value and
\* inserts nothing (no new key, occupancy unchanged, and a call that only
\* reads leaves the whole table as it was).
C1_IndexGetOrInsertDefault ==
    [][last'.op \in IndexOps =>
        LET k == last'.key IN
        IF ~Present(Table, k)
        THEN /\ last'.inserted
             /\ last'.value = DefaultMapped
             /\ Present(TableNext, k)
             /\ last'.it = find(TableNext, k)
             /\ KeysOf(TableNext) = KeysOf(Table) \cup {k}
        ELSE /\ ~last'.inserted
             /\ last'.value = ValueOf(Table, k)
             /\ last'.it = find(Table, k)
             /\ KeysOf(TableNext) = KeysOf(Table)
             /\ m_size' = m_size
             /\ (last'.op = "index" => TableNext = Table)]_vars

\* C1 witness: operator[] inserted a key into a slot of the bucket array
\* that held stale non-default mapped bytes (a slot vacated by a resize),
\* and returned the default value.
C1_Witness_StaleSlot ==
    /\ last.op = "index"
    /\ last.inserted
    /\ last.it # ZeroSlot
    /\ last.raw # DefaultMapped
    /\ last.value = DefaultMapped

\* ---------------------------------------------------------------- C2
\* C2: idempotent indexing.  On a map used only through `map[k] += 1`, a
\* key that was incremented N times holds N and saw exactly one insertion
\* event (default construction ran on the first call only), whatever
\* increments of other keys, and the resizes they force, came in between;
\* a key never incremented is absent.
C2_CounterHoldsCallCount ==
    \A k \in Keys :
        IF calls[k] = 0
        THEN ~Present(Table, k) /\ ins_events[k] = 0
        ELSE Present(Table, k) /\ ValueOf(Table, k) = calls[k] /\ ins_events[k] = 1

\* C2 witness: every key was incremented MaxCalls times, across resizes.
C2_Witness_AllCounted ==
    /\ \A k \in Keys : calls[k] = MaxCalls /\ ValueOf(Table, k) = MaxCalls
    /\ size_degree > InitialSizeDegree

\* ---------------------------------------------------------------- C3
\* C3: round trip.  Every key that was inserted is found, with the mapped
\* value last set for it (for a key constructed by emplace alone: the bytes
\* of its slot at that time); a key never inserted is not found.
C3_RoundTrip ==
    \A k \in Keys :
        IF k \in InsertedKeys
        THEN Present(Table, k) /\ ValueOf(Table, k) = shadow[k]
        ELSE ~Present(Table, k)

\* C3 witness: all keys are in the map after resizes, with different
\* values among them, and a find has just returned a non-default value.
C3_Witness_AllFound ==
    /\ InsertedKeys = Keys
    /\ size_degree > InitialSizeDegree
    /\ \E j, k \in Keys : shadow[j] # shadow[k]
    /\ last.op = "find"
    /\ last.value = shadow[last.key]
    /\ last.value # DefaultMapped

\* ---------------------------------------------------------------- C4
\* The keys of the cells in the slots its, in order.
KeysAt(T, its) == [i \in 1..Len(its) |-> cell_at(T, its[i]).first]

\* The number of times k occurs in the sequence of keys ks.
Occurrences(ks, k) == Cardinality({i \in 1..Len(ks) : ks[i] = k})

\* C4: zero-key correctness.  The zero key behaves as any other key: it is
\* reported inserted exactly once (on its first insert), it is found with
\* the value last set, it counts once in the size and the iteration yields
\* it exactly once; it lives in the dedicated slot, never in the bucket
\* array.
C4_ZeroKeyAsAnyKey ==
    LET yielded == KeysAt(Table, iterate(Table)) IN
    /\ ins_events[0] <= 1
    /\ has_zero <=> ins_events[0] = 1
    /\ ins_events[0] = 1 =>
          /\ find(Table, 0) = ZeroSlot
          /\ ValueOf(Table, 0) = shadow[0]
    /\ ins_events[0] = 0 => find(Table, 0) = NotFound
    /\ Occurrences(yielded, 0) = ins_events[0]
    /\ m_size = Cardinality(InsertedKeys)
    /\ \A k \in Keys : ins_events[k] <= 1 /\ Occurrences(yielded, k) = ins_events[k]
    /\ (last.op \in IndexOps \cup {"emplace", "find"} /\ last.key = 0 /\ has_zero)
          => last.it = ZeroSlot

\* C4 witness: the zero key and two other keys are in the map, the zero
\* key with a non-default value, and for_each_mapped has just visited three
\* values, the zero slot once.
C4_Witness_ZeroAndOthers ==
    /\ has_zero
    /\ shadow[0] # DefaultMapped
    /\ Cardinality(InsertedKeys) = 3
    /\ last.op \in Visitors
    /\ Len(last.seq) = 3
    /\ Cardinality({i \in 1..Len(last.seq) : last.seq[i] = ZeroSlot}) = 1

\* ---------------------------------------------------------------- C5
\* C5: load-factor bound.  In every reachable state the occupied slots of
\* the bucket array are at most half its capacity: an insert that would
\* exceed the bound resizes before it completes, and the resize restores
\* the bound.
C5_LoadFactorBound ==
    2 * Cardinality(OccupiedSlots(Table)) <= buf_size(size_degree)

\* C5 witness: after a resize the bucket array is filled to the bound.
C5_Witness_FullAfterResize ==
    /\ size_degree > InitialSizeDegree
    /\ 2 * Cardinality(OccupiedSlots(Table)) = buf_size(size_degree)
    /\ last.inserted

\* ---------------------------------------------------------------- C6
\* C6: resize preserves data.  A step that resizes the bucket array leaves
\* every key that was in the table findable with the mapped value it had,
\* and adds no key but the one being inserted.
C6_ResizePreservesData ==
    [][size_degree' # size_degree =>
        /\ \A k \in KeysOf(Table) :
              Present(TableNext, k) /\ ValueOf(TableNext, k) = ValueOf(Table, k)
        /\ KeysOf(TableNext) = KeysOf(Table) \cup {last'.key}
        /\ last'.inserted]_vars

\* C6 witness: an insert has just resized a table that held two keys with
\* non-default values, one of them the zero key.
C6_Witness_ResizedWithData ==
    /\ size_degree > InitialSizeDegree + 1
    /\ last.inserted
    /\ last.it \notin {ZeroSlot, NotFound}
    /\ m_size = max_fill(size_degree - 1) + 1
    /\ \E j, k \in Keys \ {last.key} :
          /\ j # k
          /\ j = 0
          /\ Present(Table, j) /\ ValueOf(Table, j) # DefaultMapped
          /\ Present(Table, k) /\ ValueOf(Table, k) # DefaultMapped

\* ---------------------------------------------------------------- C7
\* its lists exactly the inserted keys, each once, and no empty slot.
ListsInsertedKeys(T, its) ==
    LET ks == KeysAt(T, its) IN
    /\ \A i \in 1..Len(its) :
          IF its[i] = ZeroSlot THEN T.has_zero
          ELSE its[i] \in DOMAIN T.buf /\ ~is_zero(T.buf[its[i]])
    /\ \A i, j \in 1..Len(its) : i # j => its[i] # its[j] /\ ks[i] # ks[j]
    /\ {ks[i] : i \in 1..Len(its)} = InsertedKeys

\* C7: iteration completeness.  In every reachable state one iteration
\* over the table yields exactly the keys ever reported inserted: none is
\* missing, none comes twice, no empty slot is yielded, and the zero-key
\* slot is yielded once when it is occupied; the slots for_each_mapped
\* called its visitor on are such an iteration.
C7_IterationComplete ==
    /\ LET its == iterate(Table) IN ListsInsertedKeys(Table, its)
    /\ last.op \in Visitors => ListsInsertedKeys(Table, last.seq)

\* C7 witness: for_each_mapped has just walked a resized table that holds
\* every key, the zero key included.
C7_Witness_WalkedAllKeys ==
    /\ last.op \in Visitors
    /\ InsertedKeys = Keys
    /\ Len(last.seq) = MaxKey + 1
    /\ last.seq[1] = ZeroSlot
    /\ size_degree > InitialSizeDegree

\* ---------------------------------------------------------------- C8
\* The occupied slots of the table, the zero-key slot included.
AllOccupied(T) == OccupiedSlots(T) \cup (IF T.has_zero THEN {ZeroSlot} ELSE {})

\* C8: for_each_mapped(visitor) calls the visitor exactly once for every
\* occupied slot and for nothing else.  A visitor that mutates the mapped
\* value changes that key's mapped value and nothing more: every key stays
\* in its slot with the visitor's result as its value, the key set,
\* occupancy and capacity are unchanged, and no unoccupied slot is touched.
C8_ForEachMappedFrame ==
    [][last'.op \in Visitors =>
        /\ Len(last'.seq) = Cardinality(AllOccupied(Table))
        /\ {last'.seq[i] : i \in 1..Len(last'.seq)} = AllOccupied(Table)
        /\ KeysOf(TableNext) = KeysOf(Table)
        /\ m_size' = m_size
        /\ size_degree' = size_degree
        /\ has_zero' = has_zero
        /\ \A k \in KeysOf(Table) :
              /\ find(TableNext, k) = find(Table, k)
              /\ ValueOf(TableNext, k) = visit(last'.op, ValueOf(Table, k))
        /\ \A i \in DOMAIN buf : is_zero(buf[i]) => buf'[i] = buf[i]
        /\ ~has_zero => zero_value' = zero_value]_vars

\* C8 witness: a mutating visitor has just run over a table holding the
\* zero key and other keys, next to an unoccupied slot with stale
\* non-default mapped bytes.
C8_Witness_MutatedInPlace ==
    /\ last.op = "bump"
    /\ has_zero
    /\ Len(last.seq) >= 3
    /\ \E k \in KeysOf(Table) : ValueOf(Table, k) # DefaultMapped
    /\ \E i \in DOMAIN buf : is_zero(buf[i]) /\ buf[i].second # DefaultMapped

\* ---------------------------------------------------------------- C9
\* No key is stored in two slots of the table.
NoKeyTwice(T) ==
    \A i, j \in OccupiedSlots(T) : i # j => T.buf[i].first # T.buf[j].first

\* The cell the probe for an absent key k ends at.
ProbeEnd(T, k) ==
    IF is_zero_key(k) THEN T.zero_value
    ELSE T.buf[find_cell(T.buf, T.size_degree, k, Hash(k),
                         place(Hash(k), T.size_degree))]

\* C9: emplace(key).  When a key-equal slot exists, emplace returns it with
\* was_inserted = false and changes nothing.  Otherwise it returns
\* was_inserted = true and the key's slot, occupancy grows by exactly one,
\* the other keys keep their mapped values, and only the key is
\* constructed: the mapped bytes of the new cell are those of the empty
\* slot the probe ended at (of the zero-key slot for the zero key), and
\* without a resize the table differs from the old one in the key of that
\* slot alone.  After every emplace no key is stored twice and occupancy is
\* the number of distinct keys emplaced.
C9_EmplaceContract ==
    [][last'.op = "emplace" =>
        LET k == last'.key IN
        /\ IF Present(Table, k)
           THEN /\ ~last'.inserted
                /\ last'.it = find(Table, k)
                /\ TableNext = Table
           ELSE /\ last'.inserted
                /\ last'.it = find(TableNext, k)
                /\ m_size' = m_size + 1
                /\ KeysOf(TableNext) = KeysOf(Table) \cup {k}
                /\ \A j \in KeysOf(Table) : ValueOf(TableNext, j) = ValueOf(Table, j)
                /\ ValueOf(TableNext, k) = get_second(ProbeEnd(Table, k))
                /\ last'.value = get_second(ProbeEnd(Table, k))
                /\ size_degree' = size_degree =>
                      IF is_zero_key(k)
                      THEN TableNext = [Table EXCEPT !.has_zero = TRUE,
                                                     !.m_size = @ + 1]
                      ELSE TableNext = [Table EXCEPT !.buf[last'.it].first = k,
                                                     !.m_size = @ + 1]
        /\ NoKeyTwice(TableNext)
        /\ m_size' = Cardinality(InsertedKeys')]_vars

\* C9 witness: emplace has just constructed a key in a slot of the bucket
\* array whose mapped bytes were stale and non-default, and the key's
\* mapped value is those bytes.
C9_Witness_KeyOnly ==
    /\ last.op = "emplace"
    /\ last.inserted
    /\ last.it \notin {ZeroSlot, NotFound}
    /\ last.raw # DefaultMapped
    /\ ValueOf(Table, last.key) = last.raw

\* --------------------------------------------------------------- C10
\* C10: find(key) is a pure read.  For every key it leaves the bucket
\* array, the zero-key slot, occupancy and capacity as they were; it
\* returns a slot exactly when emplace of the same key would report
\* was_inserted = false, and then the slot emplace would return.
C10_FindPureRead ==
    [][last'.op = "find" =>
        LET k == last'.key
            e == emplace(Table, k)
        IN  /\ TableNext = Table
            /\ (last'.it # NotFound) <=> ~e.inserted
            /\ last'.it # NotFound =>
                  /\ last'.it = e.it
                  /\ cell_at(Table, last'.it).first = k
                  /\ last'.value = get_second(cell_at(Table, last'.it))]_vars

\* C10 witness: find has just returned a key that sits off its home bucket
\* (the probe had to step over another key), in a resized table.
C10_Witness_FoundByProbe ==
    /\ last.op = "find"
    /\ last.it \notin {ZeroSlot, NotFound}
    /\ last.it # place(Hash(last.key), size_degree)
    /\ size_degree > InitialSizeDegree

\* --------------------------------------------------------------- C11
NullKeyOps == {"get_null_key_data", "has_null_key_data"}

\* C11: the null-key side channel.  In every state, whatever keys were
\* inserted (the zero key included), get_null_key_data() returns no data
\* (nullptr) and has_null_key_data() returns false, and neither call
\* changes the table: the zero key is never reported as a null key.
C11_NoNullKey ==
    [][/\ last'.op = "get_null_key_data" => last'.it = NotFound
       /\ last'.op = "has_null_key_data" => ~last'.inserted
       /\ last'.op \in NullKeyOps => TableNext = Table
       /\ get_null_key_data(TableNext) = NotFound
       /\ ~has_null_key_data(TableNext)]_vars

\* C11 witness: has_null_key_data() has just been asked of a resized table
\* that holds the zero key, with a non-default value, and other keys.
C11_Witness_ZeroKeyStored ==
    /\ last.op = "has_null_key_data"
    /\ ~last.inserted
    /\ has_zero
    /\ zero_value.second # DefaultMapped
    /\ m_size >= 3
    /\ size_degree > InitialSizeDegree

\* --------------------------------------------------------------- C12
\* C12: allocation failure during resize.  An emplace whose resize cannot
\* allocate is reported as resource exhaustion (no handle, nothing
\* inserted) and leaves no half-resized table: the bucket array keeps its
\* size, every key inserted before is still found with its value, and the
\* table still satisfies its invariants (load-factor bound, occupancy
\* equal to the number of keys, no key stored twice, the zero key in its
\* dedicated slot only).
C12_AllocFailureKeepsTable ==
    [][last'.op = "bad_alloc" =>
        /\ ~last'.inserted
        /\ last'.it = NotFound
        /\ size_degree' = size_degree
        /\ DOMAIN buf' = DOMAIN buf
        /\ \A k \in KeysOf(Table) :
              Present(TableNext, k) /\ ValueOf(TableNext, k) = ValueOf(Table, k)
        /\ \A k \in InsertedKeys :
              Present(TableNext, k) /\ ValueOf(TableNext, k) = shadow[k]
        /\ 2 * Cardinality(OccupiedSlots(TableNext)) <= buf_size(size_degree')
        /\ m_size' = Cardinality(KeysOf(TableNext))
        /\ Cardinality(OccupiedSlots(TableNext)) + (IF has_zero' THEN 1 ELSE 0) = m_size'
        /\ NoKeyTwice(TableNext)]_vars

\* C12 witness: an emplace has just failed for lack of memory on a table
\* that had been resized before and holds the zero key and another key
\* with non-default values.
C12_Witness_FailedResize ==
    /\ last.op = "bad_alloc"
    /\ size_degree > InitialSizeDegree
    /\ has_zero
    /\ \E j, k \in KeysOf(Table) :
          /\ j = 0 /\ k # 0
          /\ ValueOf(Table, j) # DefaultMapped
          /\ ValueOf(Table, k) # DefaultMapped

\* --------------------------------------------------------------- C13
\* The handle h references the slot that holds its key in T.
Refers(T, h) ==
    IF h.it = ZeroSlot THEN T.has_zero /\ is_zero_key(h.key)
    ELSE h.it \in DOMAIN T.buf /\ T.buf[h.it].first = h.key

\* C13: LookupResult validity.  A handle returned by emplace, find or
\* operator[] references the slot of its key, and stays valid until the
\* next resize: while no resize has happened since it was returned, a find
\* or an emplace that does not resize leaves the cell it references as it
\* was (same key, same mapped value),
\* a read through it yields the key and the key's current mapped value, and
\* a handle stops referencing its key's slot only in a step that inserts
\* and resizes.
C13_HandleValidUntilResize ==
    [][/\ (held' # NoHandle /\ held'.size_degree = size_degree') =>
             /\ Refers(TableNext, held')
             /\ find(TableNext, held'.key) = held'.it
       /\ (held # NoHandle /\ held' = held) =>
             /\ (/\ last'.op \in {"find", "emplace"}
                 /\ held.size_degree = size_degree
                 /\ size_degree' = size_degree)
                   => cell_at(TableNext, held.it) = cell_at(Table, held.it)
             /\ (Refers(Table, held) /\ ~Refers(TableNext, held))
                   => size_degree' # size_degree /\ last'.inserted
             /\ (last'.op = "deref" /\ held.size_degree = size_degree) =>
                   /\ last'.key = held.key
                   /\ last'.value = ValueOf(Table, held.key)]_vars

\* C13 witness: an emplace has just inserted another key, without a
\* resize, while the caller keeps a handle to a slot of the bucket array
\* that holds a non-default value, in a table resized before.
C13_Witness_HeldAcrossInsert ==
    /\ last.op = "emplace"
    /\ last.inserted
    /\ held # NoHandle
    /\ held.it # ZeroSlot
    /\ held.key # last.key
    /\ held.size_degree = size_degree
    /\ size_degree > InitialSizeDegree
    /\ get_second(cell_at(Table, held.it)) # DefaultMapped

\* --------------------------------------------------------------- C14
\* C14: hash-aware key comparison.  key_equals(k, h) of a hash-cached cell
\* is true exactly when the stored hash equals h and the stored key equals
\* k (false on a hash mismatch even when the keys are equal); key_equals(k,
\* h) of a plain cell ignores h and is true exactly when the stored key
\* equals k; key_equals(k) of either variant compares the key only.  No
\* comparison changes a cell.
C14_KeyEquals ==
    [][/\ last'.op = "cached.key_equals" =>
             /\ last'.inserted <=> (cells.cached.saved_hash = last'.raw
                                     /\ cells.cached.first = last'.key)
             /\ cells.cached.saved_hash # last'.raw => ~last'.inserted
       /\ last'.op = "key_equals" =>
             last'.inserted <=> cells.plain.first = last'.key
       /\ last'.op = "cached.key_equals_1" =>
             last'.inserted <=> cells.cached.first = last'.key
       /\ last'.op = "key_equals_1" =>
             last'.inserted <=> cells.plain.first = last'.key
       /\ last'.op \in {"key_equals", "key_equals_1", "cached.key_equals",
                         "cached.key_equals_1"} => cells' = cells]_vars

\* C14 witness: the hash-aware comparison of a hash-cached cell with its
\* own key and another hash than the stored one has just answered false.
C14_Witness_HashMismatch ==
    /\ last.op = "cached.key_equals"
    /\ last.key = cells.cached.first
    /\ last.raw # cells.cached.saved_hash
    /\ last.raw = Hash(last.key)
    /\ ~last.inserted

\* --------------------------------------------------------------- C15
\* C15: get_hash and set_hash.  set_hash(v) leaves a plain cell as it was
\* and get_hash of a plain cell is the hash of its key, whatever was
\* passed to set_hash; set_hash(v) of a hash-cached cell stores v and its
\* get_hash returns the v last stored, be it the hash of the key or not;
\* set_hash changes neither the key nor the mapped value, get_hash changes
\* nothing.
C15_GetSetHash ==
    [][/\ last'.op = "set_hash" =>
             /\ cells'.plain = cells.plain
             /\ cells'.cached.saved_hash = last'.raw
             /\ cells'.cached.first = cells.cached.first
             /\ cells'.cached.second = cells.cached.second
       /\ last'.op = "get_hash" =>
             /\ last'.value = Hash(cells.plain.first)
             /\ cells' = cells
       /\ last'.op = "cached.get_hash" =>
             /\ cells.stored # NoValue => last'.value = cells.stored
             /\ last'.value = cells.cached.saved_hash
             /\ cells' = cells]_vars

\* C15 witness: after set_hash(v) with v not the hash of the key, get_hash
\* of the hash-cached cell has just returned v.
C15_Witness_StoredHashReturned ==
    /\ last.op = "cached.get_hash"
    /\ cells.stored # NoValue
    /\ cells.stored # Hash(cells.cached.first)
    /\ last.value = cells.stored

\* --------------------------------------------------------------- C16
\* The keys the map on hash-cached cells holds.
CachedKeysOf(T) == {k \in Keys : WithSavedHash_find(T, k) # NotFound}

\* Every occupied hash-cached cell holds the hash of its key.
SavedHashIsHash(T) ==
    /\ \A i \in DOMAIN T.buf :
          ~is_zero(T.buf[i]) => T.buf[i].saved_hash = Hash(T.buf[i].first)
    /\ T.has_zero => T.zero_value.saved_hash = Hash(T.zero_value.first)

\* C16: cell-variant equivalence.  A map on hash-cached cells and a map on
\* plain cells, given the same hash function and the same emplace, find
\* and operator[] calls, answer every call alike (inserted or not, found
\* or not, the mapped value) and hold the same keys with the same mapped
\* values after every step; every occupied hash-cached cell, the zero-key
\* cell included, has saved_hash = hash(key), also after a resize, though
\* the constructor leaves saved_hash unset.
C16_CellVariantsAgree ==
    [][last' # Idle =>
        /\ cached_last'.op = last'.op
        /\ cached_last'.inserted = last'.inserted
        /\ (cached_last'.it = NotFound) <=> (last'.it = NotFound)
        /\ cached_last'.value = last'.value
        /\ CachedKeysOf(cached') = KeysOf(TableNext)
        /\ \A k \in KeysOf(TableNext) :
              get_second(cell_at(cached', WithSavedHash_find(cached', k)))
                  = ValueOf(TableNext, k)
        /\ cached'.m_size = m_size'
        /\ SavedHashIsHash(cached')]_vars

\* C16 witness: a find has just returned a key on both maps, after
\* resizes; the maps hold every key, the zero key included, and the map on
\* hash-cached cells has an empty slot with the stale hash of a cell that a
\* resize moved away.
C16_Witness_AgreeAfterResize ==
    /\ last.op = "find"
    /\ last.it # NotFound
    /\ last.value # DefaultMapped
    /\ cached_last.value = last.value
    /\ size_degree > InitialSizeDegree
    /\ cached.size_degree = size_degree
    /\ cached.has_zero
    /\ cached.m_size = MaxKey + 1
    /\ \E i \in DOMAIN cached.buf :
          is_zero(cached.buf[i]) /\ cached.buf[i].saved_hash # 0

\* --------------------------------------------------------------- C17
\* The probe sequence from slot pos reaches slot target without passing
\* an empty slot, within steps steps.
RECURSIVE ProbeReaches(_, _, _, _)
ProbeReaches(T, pos, target, steps) ==
    IF pos = target THEN TRUE
    ELSE IF steps = 0 \/ is_zero(T.buf[pos]) THEN FALSE
         ELSE ProbeReaches(T, next(pos, T.size_degree), target, steps - 1)

\* C17: the sentinel invariant.  In every reachable state, before and
\* after every resize: the slots of the bucket array whose key is not the
\* zero sentinel hold exactly the non-zero keys inserted, each once, and
\* every other slot is empty; the zero key is never stored in the bucket
\* array (it takes no slot: it is counted by the flag of its dedicated
\* cell); and every key in the bucket array is reached from
\* hash(key) & (capacity - 1) by the probe sequence without passing an
\* empty slot.
C17_SentinelInvariant ==
    /\ \A i \in DOMAIN buf : is_zero(buf[i]) <=> buf[i].first = 0
    /\ {buf[i].first : i \in OccupiedSlots(Table)} = InsertedKeys \ {0}
    /\ NoKeyTwice(Table)
    /\ has_zero <=> 0 \in InsertedKeys
    /\ zero_value.first = 0
    /\ m_size = Cardinality(OccupiedSlots(Table)) + (IF has_zero THEN 1 ELSE 0)
    /\ \A i \in OccupiedSlots(Table) :
          ProbeReaches(Table, place(Hash(buf[i].first), size_degree), i,
                       buf_size(size_degree))

\* C17 witness: after a resize the table holds the zero key and two other
\* keys, one of them off its home bucket, next to a slot the resize
\* emptied (zero key, stale mapped bytes).
C17_Witness_ProbedAfterResize ==
    /\ size_degree > InitialSizeDegree
    /\ has_zero
    /\ Cardinality(OccupiedSlots(Table)) >= 2
    /\ \E i \in OccupiedSlots(Table) : i # place(Hash(buf[i].first), size_degree)
    /\ \E i \in DOMAIN buf : is_zero(buf[i]) /\ buf[i].second # DefaultMapped

\* --------------------------------------------------------------- C18
\* The call made an index query.
QueriedIndex(call) ==
    \E i \in 1..Len(call.reads) : call.reads[i][1] = "read_from_inverted_index"

\* The rows the index query of the call returned (none without a query).
RowsFound(call) ==
    IF QueriedIndex(call) THEN call.iterator.index.rows ELSE {}

\* The null bitmap the call was given (none when the index has no nulls
\* or no bitmap is returned).
NullRows(call) ==
    IF call.iterator.has_null /\ call.iterator.null_bitmap.present
    THEN call.iterator.null_bitmap.rows
    ELSE {}

\* C18: the result of evaluate.  A call with an iterator that returns OK
\* leaves bitmap = (input minus the null bitmap, when the index has nulls
\* and a null bitmap is returned) intersected with the rows the index query
\* returned: a subset of the input that holds no row of the null bitmap.
\* A call with a null iterator returns OK and leaves the bitmap as it was.
C18_EvaluateResult ==
    evaluated # NoCall =>
        IF evaluated.iterator.null
        THEN evaluated.status = "OK" /\ bitmap = evaluated.input
        ELSE evaluated.status = "OK" =>
                /\ bitmap = (evaluated.input \ NullRows(evaluated))
                                \cap RowsFound(evaluated)
                /\ bitmap \subseteq evaluated.input
                /\ bitmap \cap NullRows(evaluated) = {}

\* C18 witness: an evaluate has just returned OK with a non-empty bitmap
\* from which it took a null row that the index query had returned.
C18_Witness_NullRowMasked ==
    /\ evaluated # NoCall
    /\ ~evaluated.iterator.null
    /\ evaluated.status = "OK"
    /\ QueriedIndex(evaluated)
    /\ bitmap # {}
    /\ bitmap # evaluated.input
    /\ evaluated.input \cap NullRows(evaluated) \cap RowsFound(evaluated) # {}

\* --------------------------------------------------------------- C19
PhraseMatchTypes == {"MATCH_PHRASE", "MATCH_PHRASE_PREFIX", "MATCH_PHRASE_EDGE"}

\* The call is a phrase query on a full-text index without phrase support.
PhraseUnsupported(call) ==
    /\ ~call.iterator.null
    /\ call.match_type \in PhraseMatchTypes
    /\ call.iterator.reader_type = "FULLTEXT"
    /\ call.iterator.phrase_support = "false"

\* C19: the error exits.  Every return other than OK (the phrase check, a
\* value that does not parse, a failed index read, a failed null-bitmap
\* read) leaves the bitmap as it was.  A phrase query (MATCH_PHRASE,
\* MATCH_PHRASE_PREFIX, MATCH_PHRASE_EDGE) on a FULLTEXT index with phrase
\* support off returns INVERTED_INDEX_INVALID_PARAMETERS before any read of
\* the index or of the null bitmap, and nothing else is rejected that way.
C19_ErrorsLeaveBitmap ==
    evaluated # NoCall =>
        /\ evaluated.status # "OK" => bitmap = evaluated.input
        /\ PhraseUnsupported(evaluated) =>
              /\ evaluated.status = "INVERTED_INDEX_INVALID_PARAMETERS"
              /\ evaluated.reads = <<>>
        /\ (/\ evaluated.status = "INVERTED_INDEX_INVALID_PARAMETERS"
            /\ evaluated.reads = <<>>) => PhraseUnsupported(evaluated)
        /\ evaluated.status \in {"OK", "INVERTED_INDEX_INVALID_PARAMETERS",
                                  "INVALID_ARGUMENT", "IO_ERROR"}

\* C19 witness: the null-bitmap read has just failed after an index query
\* that returned other rows than the bitmap holds; the bitmap is not empty.
C19_Witness_NullReadFailed ==
    /\ evaluated # NoCall
    /\ evaluated.status = "IO_ERROR"
    /\ Len(evaluated.reads) = 2
    /\ evaluated.reads[2][1] = "read_null_bitmap"
    /\ evaluated.iterator.index.rows # evaluated.input
    /\ bitmap # {}

\* --------------------------------------------------------------- C20
\* The null-bitmap read of the call fails.
NullReadFails(call) ==
    call.iterator.has_null /\ call.iterator.null_bitmap.status # "OK"

\* C20 as stated: with an iterator and a column that is neither a string,
\* an array of strings nor an array of a numeric type, no index query is
\* made, the call returns OK (unless the null-bitmap read fails) and the
\* bitmap becomes empty; with a null iterator the bitmap is untouched.
C20_UnsupportedColumnEmpties ==
    evaluated # NoCall =>
        IF evaluated.iterator.null
        THEN bitmap = evaluated.input
        ELSE evaluated.column = "other" =>
                /\ ~QueriedIndex(evaluated)
                /\ ~NullReadFails(evaluated) =>
                      evaluated.status = "OK" /\ bitmap = {}

\* C20, amended: with an iterator and a column that is neither a string,
\* an array of strings nor an array of a numeric type, no index query is
\* made; a phrase query on a full-text index without phrase support is
\* rejected with INVERTED_INDEX_INVALID_PARAMETERS and the bitmap is left as
\* it was; otherwise the call returns OK and the bitmap becomes empty,
\* unless the null-bitmap read fails, and then its error is returned and
\* the bitmap is left as it was.  With a null iterator the bitmap is
\* untouched.
C20_UnsupportedColumnUnlessRejected ==
    evaluated # NoCall =>
        IF evaluated.iterator.null
        THEN bitmap = evaluated.input
        ELSE evaluated.column = "other" =>
                /\ ~QueriedIndex(evaluated)
                /\ IF PhraseUnsupported(evaluated)
                   THEN /\ evaluated.status = "INVERTED_INDEX_INVALID_PARAMETERS"
                        /\ bitmap = evaluated.input
                   ELSE IF NullReadFails(evaluated)
                        THEN /\ evaluated.status = evaluated.iterator.null_bitmap.status
                             /\ bitmap = evaluated.input
                        ELSE evaluated.status = "OK" /\ bitmap = {}

\* C20 witness: an evaluate on a column of another type has just returned
\* OK and emptied a bitmap that held rows, having read a null bitmap and
\* made no index query.
C20_Witness_Emptied ==
    /\ evaluated # NoCall
    /\ ~evaluated.iterator.null
    /\ evaluated.column = "other"
    /\ evaluated.status = "OK"
    /\ evaluated.input # {}
    /\ bitmap = {}
    /\ evaluated.reads = <<<<"read_null_bitmap", "">>>>
====
